---- MODULE Spec2Model ----
(***************************************************************************)
(* Particle swarm optimizer of src/optimizers/pso.py (class pso).          *)
(*                                                                         *)
(* Numbers.  The tensors hold float32 values.  A value is modelled as an   *)
(* exact rational <<n, d>> in lowest terms with d > 0, and the non-finite  *)
(* value NaN as <<0, 0>>.  Arithmetic propagates NaN and every comparison  *)
(* with NaN is false, as in IEEE 754; rounding and overflow to infinity    *)
(* are not modelled.                                                       *)
(*                                                                         *)
(* Collaborators.  utils.dimensions and utils.build_NN are not part of     *)
(* src/; they are modelled from the interface section of the design        *)
(* document.  loss_op is the caller's function; two instances are          *)
(* enumerated (LossOps).  The random generators are enumerated by a seed   *)
(* (construction) and by the drawn arrays (get_randoms).                   *)
(***************************************************************************)
EXTENDS Integers, Sequences, FiniteSets, TLC

VARIABLES
    loss_op,       \* self.loss_op: [kind, shift] (see individual_fn)
    pop_size,      \* self.pop_size
    n_iter,        \* self.n_iter
    b, c1, c2,     \* self.b, self.c1, self.c2
    x_min, x_max,  \* self.x_min, self.x_max
    gd_alpha,      \* self.gd_alpha
    cold_start,    \* self.cold_start
    x,             \* self.x   [pop_size, dim]
    v,             \* self.v   [pop_size, dim]
    p,             \* self.p   [pop_size, dim]
    f_p,           \* self.f_p [pop_size, 1]
    g,             \* self.g   [dim]
    grads,         \* self.grads [pop_size, dim]
    loss_history,  \* self.loss_history
    f_x,           \* f_x of the latest fitness_fn call (local of update_p_best)
    mask,          \* f_x < self.f_p of the latest update_p_best (the tf.where condition)
    r1, r2,        \* r1, r2 of the latest get_randoms call (locals of step)
    i,             \* loop variable of train()
    pc,            \* "ready": constructed; "train": inside the loop; "done": returned
    f_seen,        \* history: least finite fitness any evaluation has returned
    twin           \* a second optimizer, used by SpecTwin only

vars == <<loss_op, pop_size, n_iter, b, c1, c2, x_min, x_max, gd_alpha,
          cold_start, x, v, p, f_p, g, grads, loss_history, f_x, mask, r1,
          r2, i, pc, f_seen, twin>>

config == <<loss_op, pop_size, n_iter, b, c1, c2, x_min, x_max, gd_alpha,
            cold_start>>

-----------------------------------------------------------------------------
(* Bounds of the model *)

MaxPop == 2
MaxIter == 2

-----------------------------------------------------------------------------
(* Float arithmetic *)

NaN == <<0, 0>>

IsNaN(a) == a[2] = 0

Abs(n) == IF n < 0 THEN -n ELSE n

RECURSIVE Gcd(_, _)
Gcd(m, n) == IF n = 0 THEN m ELSE Gcd(n, m % n)

(* Every operation evaluates its operands once (the bound u, w), as the     *)
(* tensor operations do.                                                   *)
Rat(n, d) ==
    LET Reduced(u, w) ==
            IF w = 0 THEN NaN
            ELSE LET k == Gcd(Abs(u), Abs(w))
                     s == IF w < 0 THEN -1 ELSE 1
                 IN  <<(s * u) \div k, (s * w) \div k>>
    IN  CHOOSE r \in {Reduced(u, w) : u \in {n}, w \in {d}} : TRUE

RInt(n) == <<n, 1>>

RAdd(a1, a2) ==
    LET Sum(u, w) ==
            IF IsNaN(u) \/ IsNaN(w) THEN NaN
            ELSE IF u[2] = w[2] THEN Rat(u[1] + w[1], u[2])
            ELSE Rat(u[1] * w[2] + w[1] * u[2], u[2] * w[2])
    IN  CHOOSE r \in {Sum(u, w) : u \in {a1}, w \in {a2}} : TRUE

RNeg(a) ==
    LET Minus(u) == IF IsNaN(u) THEN NaN ELSE <<-u[1], u[2]>>
    IN  CHOOSE r \in {Minus(u) : u \in {a}} : TRUE

RSub(a1, a2) == RAdd(a1, RNeg(a2))

RMul(a1, a2) ==
    LET Product(u, w) ==
            IF IsNaN(u) \/ IsNaN(w) THEN NaN
            ELSE Rat(u[1] * w[1], u[2] * w[2])
    IN  CHOOSE r \in {Product(u, w) : u \in {a1}, w \in {a2}} : TRUE

RLt(a1, a2) ==
    /\ ~IsNaN(a1)
    /\ ~IsNaN(a2)
    /\ a1[1] * a2[2] < a2[1] * a1[2]

RECURSIVE SumUpTo(_, _)
SumUpTo(s, n) == IF n = 0 THEN RInt(0) ELSE RAdd(SumUpTo(s, n - 1), s[n])

RSum(s) == SumUpTo(s, Len(s))

reduce_mean(s) == RMul(RSum(s), Rat(1, Len(s)))

-----------------------------------------------------------------------------
(* Collaborators *)

layer_sizes == <<1, 1>>

RECURSIVE dimensions(_)
dimensions(ls) ==
    IF Len(ls) < 2 THEN 0
    ELSE ls[1] * ls[2] + ls[2] + dimensions(Tail(ls))

dim == dimensions(layer_sizes)

Particles == 1..pop_size

Seeds == {0, 1}

StartPositions ==
    << <<RInt(1), RInt(1)>>, <<RInt(-1), RInt(-1)>>, <<RInt(2), RInt(0)>> >>

build_swarm(n, seed) ==
    [k \in 1..n |-> StartPositions[((seed + k - 1) % Len(StartPositions)) + 1]]

LossOps == {"sumsq", "partial"}

Loss(kind, particle) ==
    IF kind = "partial" /\ RLt(particle[1], RInt(-1)) THEN NaN
    ELSE RSum([d \in 1..dim |-> RMul(particle[d], particle[d])])

Grad(kind, particle) ==
    IF kind = "partial" /\ RLt(particle[1], RInt(-1))
    THEN [d \in 1..dim |-> NaN]
    ELSE [d \in 1..dim |-> RMul(RInt(2), particle[d])]

-----------------------------------------------------------------------------
(* Methods of class pso *)

individual_fn(lo, particle) ==
    [loss |-> Loss(lo.kind, particle),
     grad |-> [d \in 1..dim |-> RAdd(Grad(lo.kind, particle)[d], lo.shift)]]

fitness_fn(lo, xx) ==
    [f_x   |-> [k \in 1..Len(xx) |-> individual_fn(lo, xx[k]).loss],
     grads |-> [k \in 1..Len(xx) |-> individual_fn(lo, xx[k]).grad]]

RECURSIVE ArgMinFrom(_, _, _)
ArgMinFrom(fp, k, best) ==
    IF k > Len(fp) THEN best
    ELSE ArgMinFrom(fp, k + 1, IF RLt(fp[k], fp[best]) THEN k ELSE best)

argmin(fp) == ArgMinFrom(fp, 2, 1)

g_best(pp, fp) == pp[argmin(fp)]

HotValue(seed, k, d, lo, hi) ==
    RAdd(lo, RMul(Rat((seed + k + d) % 2, 2), RSub(hi, lo)))

start_velocities(cold, n, seed, xmin, xmax) ==
    IF cold
    THEN [k \in 1..n |-> [d \in 1..dim |-> RInt(0)]]
    ELSE [k \in 1..n |-> [d \in 1..dim |->
            HotValue(seed, k, d, RSub(RNeg(xmax), xmin), RSub(xmax, xmin))]]

Draws ==
    {[d \in 1..dim |-> RInt(0)],
     [d \in 1..dim |-> Rat(1, 2)],
     [d \in 1..dim |-> IF d = 1 THEN RInt(0) ELSE Rat(1, 2)]}

get_randoms == Draws \X Draws

CoefPerParticle(r, k, d) == r[((k + d) % dim) + 1]

Coef(r, k, d) == r[d]

VelocityUnscaledGrad(vv, xx, pp, gg, gr, rr1, rr2) ==
    [k \in 1..Len(xx) |-> [d \in 1..dim |->
        RSub(RAdd(RAdd(RMul(b, vv[k][d]),
                       RMul(RMul(c1, Coef(rr1, k, d)), RSub(pp[k][d], xx[k][d]))),
                  RMul(RMul(c2, Coef(rr2, k, d)), RSub(gg[d], xx[k][d]))),
             gr[k][d])]]

VelocityNoR2(vv, xx, pp, gg, gr, rr1, rr2) ==
    [k \in 1..Len(xx) |-> [d \in 1..dim |->
        RSub(RAdd(RAdd(RMul(b, vv[k][d]),
                       RMul(RMul(c1, Coef(rr1, k, d)), RSub(pp[k][d], xx[k][d]))),
                  RMul(c2, RSub(gg[d], xx[k][d]))),
             RMul(gd_alpha, gr[k][d]))]]

Velocity(vv, xx, pp, gg, gr, rr1, rr2) ==
    [k \in 1..Len(xx) |-> [d \in 1..dim |->
        RSub(RAdd(RAdd(RMul(b, vv[k][d]),
                       RMul(RMul(c1, Coef(rr1, k, d)), RSub(pp[k][d], xx[k][d]))),
                  RMul(RMul(c2, Coef(rr2, k, d)), RSub(gg[d], xx[k][d]))),
             RMul(gd_alpha, gr[k][d]))]]

Position(xx, vv) ==
    [k \in 1..Len(xx) |-> [d \in 1..dim |-> RAdd(xx[k][d], vv[k][d])]]

BetterFlipped(fx, fp) == [k \in 1..Len(fp) |-> RLt(fp[k], fx[k])]

BetterOrEqual(fx, fp) ==
    [k \in 1..Len(fp) |-> RLt(fx[k], fp[k]) \/ fx[k] = fp[k]]

Better(fx, fp) == [k \in 1..Len(fp) |-> RLt(fx[k], fp[k])]

WhereFirst(cond, s1, s2) == s1

Where(cond, s1, s2) == [k \in 1..Len(cond) |-> IF cond[k] THEN s1[k] ELSE s2[k]]

update_p_best(s, lo) ==
    CHOOSE t \in
        {[s EXCEPT !.f_x = ev.f_x,
                   !.mask = Better(ev.f_x, s.f_p),
                   !.grads = ev.grads,
                   !.loss_history = Append(s.loss_history, reduce_mean(ev.f_x)),
                   !.p = Where(Better(ev.f_x, s.f_p), s.x, s.p),
                   !.f_p = Where(Better(ev.f_x, s.f_p), ev.f_x, s.f_p)]
            : ev \in {fitness_fn(lo, s.x)}} : TRUE

update_g_best_stale(s) == s

update_g_best(s) == [s EXCEPT !.g = g_best(s.p, s.f_p)]

move(s, rr) ==
    CHOOSE t \in
        {[s EXCEPT !.v = nv, !.x = Position(s.x, nv)]
            : nv \in {Velocity(s.v, s.x, s.p, s.g, s.grads, rr[1], rr[2])}} : TRUE

(* step(): the statements run in sequence, each on the result of the one    *)
(* before it.                                                               *)
step_fn(s, lo, rr) ==
    CHOOSE t \in
        {update_g_best(s3) : s3 \in
            {update_p_best(s2, lo) : s2 \in
                {move(s1, rr) : s1 \in {s}}}} : TRUE

construct(lo, n, seed, cold, xmin, xmax) ==
    LET x0 == build_swarm(n, seed)
        ev == fitness_fn(lo, x0)
    IN  [x |-> x0, p |-> x0, loss_history |-> <<>>,
         f_p |-> ev.f_x, f_x |-> ev.f_x, grads |-> ev.grads,
         mask |-> [k \in 1..n |-> FALSE],
         g |-> g_best(x0, ev.f_x),
         v |-> start_velocities(cold, n, seed, xmin, xmax)]

self == [x |-> x, v |-> v, p |-> p, f_p |-> f_p, g |-> g, grads |-> grads,
         loss_history |-> loss_history, f_x |-> f_x, mask |-> mask]

Assign(s) ==
    /\ x' = s.x
    /\ v' = s.v
    /\ p' = s.p
    /\ f_p' = s.f_p
    /\ g' = s.g
    /\ grads' = s.grads
    /\ loss_history' = s.loss_history
    /\ f_x' = s.f_x
    /\ mask' = s.mask

RECURSIVE MinUpTo(_, _, _)
MinUpTo(best, s, n) ==
    IF n = 0 THEN best
    ELSE MinUpTo(IF RLt(s[n], best) THEN s[n] ELSE best, s, n - 1)

MinFinite(best, s) == MinUpTo(best, s, Len(s))

-----------------------------------------------------------------------------
(* The optimizer as a state machine *)

Starts ==
    {[cold |-> TRUE,  lo |-> RInt(-1), hi |-> RInt(1)],
     [cold |-> FALSE, lo |-> RInt(-1), hi |-> RInt(1)],
     [cold |-> FALSE, lo |-> RInt(1),  hi |-> RInt(1)]}

InitConfig ==
    /\ loss_op \in [kind : LossOps, shift : {RInt(0)}]
    /\ pop_size \in 1..MaxPop
    /\ n_iter \in 0..MaxIter
    /\ b = Rat(1, 2)
    /\ c1 = RInt(1)
    /\ c2 = Rat(1, 2)
    /\ \E st \in Starts :
          /\ cold_start = st.cold
          /\ x_min = st.lo
          /\ x_max = st.hi
    /\ gd_alpha \in {RInt(0), RInt(1)}

InitSwarm ==
    \E seed \in Seeds :
        LET s == construct(loss_op, pop_size, seed, cold_start, x_min, x_max)
        IN  /\ x = s.x
            /\ v = s.v
            /\ p = s.p
            /\ f_p = s.f_p
            /\ g = s.g
            /\ grads = s.grads
            /\ loss_history = s.loss_history
            /\ f_x = s.f_x
            /\ mask = s.mask
            /\ f_seen = MinFinite(s.f_x[1], s.f_x)
            /\ r1 = [d \in 1..dim |-> RInt(0)]
            /\ r2 = [d \in 1..dim |-> RInt(0)]
            /\ i = 0
            /\ pc = "ready"

Init ==
    /\ InitConfig
    /\ InitSwarm
    /\ twin = [run |-> self, shift |-> RInt(0)]

train ==
    /\ pc = "ready"
    /\ pc' = "train"
    /\ i' = 0
    /\ UNCHANGED <<config, x, v, p, f_p, g, grads, loss_history, f_x, mask,
                   r1, r2, f_seen, twin>>

step_with(rr) ==
    /\ pc = "train"
    /\ i < n_iter
    /\ r1' = rr[1]
    /\ r2' = rr[2]
    /\ \E s \in {step_fn(self, loss_op, rr)} : Assign(s)
    /\ f_seen' = MinFinite(f_seen, f_x')
    /\ i' = i + 1
    /\ UNCHANGED <<config, pc>>

train_return_early ==
    /\ pc = "train"
    /\ i >= n_iter - 1
    /\ pc' = "done"
    /\ UNCHANGED <<config, x, v, p, f_p, g, grads, loss_history, f_x, mask,
                   r1, r2, i, f_seen, twin>>

train_return ==
    /\ pc = "train"
    /\ i >= n_iter
    /\ pc' = "done"
    /\ UNCHANGED <<config, x, v, p, f_p, g, grads, loss_history, f_x, mask,
                   r1, r2, i, f_seen, twin>>

step == \E rr \in get_randoms : step_with(rr) /\ UNCHANGED twin

Next ==
    \/ train
    \/ step
    \/ train_return

Spec == Init /\ [][Next]_vars

(* train() is a for loop over range(n_iter) whose body always returns: once  *)
(* called, each iteration and the return are eventually taken.               *)
FairSpec == Spec /\ WF_vars(step) /\ WF_vars(train_return)

-----------------------------------------------------------------------------
(* Two optimizers run side by side: same configuration, same initial swarm,  *)
(* same r1, r2 in every step; the twin's loss_op returns the same losses but *)
(* gradients shifted by a constant.                                          *)

Shifts == {RInt(1)}

twin_loss_op == [loss_op EXCEPT !.shift = twin.shift]

InitTwin ==
    /\ InitConfig
    /\ InitSwarm
    /\ \E sh \in Shifts :
          twin = [run |-> [self EXCEPT
                              !.grads = fitness_fn([loss_op EXCEPT !.shift = sh],
                                                   x).grads],
                  shift |-> sh]

step_twin ==
    \E rr \in get_randoms :
        /\ step_with(rr)
        /\ twin' = [twin EXCEPT !.run = step_fn(twin.run, twin_loss_op, rr)]

NextTwin ==
    \/ train
    \/ step_twin
    \/ train_return

SpecTwin == InitTwin /\ [][NextTwin]_vars

-----------------------------------------------------------------------------
(* Properties *)

Zero == RInt(0)

RLe(a1, a2) ==
    /\ ~IsNaN(a1)
    /\ ~IsNaN(a2)
    /\ a1[1] * a2[2] <= a2[1] * a1[2]

Zeros(n) == [k \in 1..n |-> [d \in 1..dim |-> Zero]]

StepTaken == i' = i + 1

Fitness(pos) == Loss(loss_op.kind, pos)

(* C1: for every particle, the personal-best fitness after a step is less    *)
(* than or equal to the personal-best fitness before it.                     *)
C1_PBestNeverWorsens ==
    [][\A k \in Particles : RLe(f_p'[k], f_p[k])]_vars

C1_Witness ==
    /\ i >= 2
    /\ pop_size >= 2
    /\ \E k \in Particles : mask[k]
    /\ \E k \in Particles : ~mask[k] /\ RLt(f_p[k], f_x[k])

(* C2: after construction and after every step, g is the personal best of    *)
(* the smallest index at which f_p attains its minimum.                      *)
C2_GlobalBestIsFirstArgmin ==
    LET first == CHOOSE k \in Particles :
                    /\ \A j \in Particles : RLe(f_p[k], f_p[j])
                    /\ \A j \in 1..(k - 1) : RLt(f_p[k], f_p[j])
    IN  g = p[first]

C2_Witness ==
    /\ i >= 1
    /\ \E k, j \in Particles :
          /\ k < j
          /\ f_p[k] = f_p[j]
          /\ \A m \in Particles : RLe(f_p[k], f_p[m])
          /\ p[k] # p[j]
          /\ mask[k]
          /\ g = p[k]

(* C3: loss_history is empty after construction, gains exactly one entry per *)
(* step, the mean of that step's f_x, keeps its earlier entries, and has     *)
(* length n_iter when train() returns; train() runs n_iter steps and then    *)
(* returns.                                                                  *)
C3_TrainRunsNIterSteps ==
    /\ [](pc = "ready" => loss_history = <<>>)
    /\ [](Len(loss_history) = i /\ i <= n_iter)
    /\ [](pc = "done" => i = n_iter /\ Len(loss_history) = n_iter)
    /\ [][loss_history' # loss_history =>
            /\ StepTaken
            /\ loss_history' = Append(loss_history, reduce_mean(f_x'))]_vars
    /\ ((pc = "train") ~> (pc = "done"))

C3_Witness ==
    /\ pc = "done"
    /\ n_iter >= 2
    /\ Len(loss_history) = n_iter
    /\ loss_history[1] # loss_history[2]

C5_InvalidConfigRejected ==
    /\ pop_size > 0
    /\ n_iter > 0
    /\ RLt(x_min, x_max)

(* C6: a non-finite loss aborts train(), so loss_history never holds a       *)
(* non-finite entry.                                                         *)
C6_NoNonFiniteEntry ==
    \A k \in 1..Len(loss_history) : ~IsNaN(loss_history[k])

(* C7: with gd_alpha = 0, two runs from the same swarm with the same r1, r2  *)
(* whose evaluators return different gradients have identical v, x, p, f_p,  *)
(* g and loss_history after every step.                                      *)
C7_GradientsIgnoredWithoutGD ==
    gd_alpha = Zero =>
        /\ twin.run.v = v
        /\ twin.run.x = x
        /\ twin.run.p = p
        /\ twin.run.f_p = f_p
        /\ twin.run.g = g
        /\ twin.run.loss_history = loss_history

C7_Witness ==
    /\ gd_alpha = Zero
    /\ i >= 2
    /\ \A k \in Particles : \A d \in 1..dim :
          /\ ~IsNaN(grads[k][d])
          /\ ~IsNaN(twin.run.grads[k][d])
          /\ twin.run.grads[k][d] # grads[k][d]
    /\ \E k \in Particles : mask[k]
    /\ twin.run.x = x

(* C8: for a cold-started swarm (v = 0, p = x) with gd_alpha = 0, a step     *)
(* with r1 = r2 = 0 leaves v zero and x, p, f_p and g unchanged, so the      *)
(* same holds of the next such step.                                         *)
C8_ZeroRandomsStationary ==
    [][(/\ cold_start
        /\ gd_alpha = Zero
        /\ v = Zeros(pop_size)
        /\ p = x
        /\ StepTaken
        /\ r1' = [d \in 1..dim |-> Zero]
        /\ r2' = [d \in 1..dim |-> Zero])
       => (/\ v' = Zeros(pop_size)
           /\ x' = x
           /\ p' = p
           /\ f_p' = f_p
           /\ g' = g)]_vars

C8_Witness ==
    /\ cold_start
    /\ gd_alpha = Zero
    /\ i >= 2
    /\ pop_size >= 2
    /\ r1 = [d \in 1..dim |-> Zero]
    /\ r2 = [d \in 1..dim |-> Zero]
    /\ v = Zeros(pop_size)
    /\ p = x
    /\ \E k \in Particles : x[k] # g
    /\ loss_history[i] = loss_history[i - 1]

(* C9: for every particle the stored f_p is the objective's value at the     *)
(* stored p; a step replaces p and f_p together, exactly when f_x < f_p      *)
(* strictly, and otherwise keeps both.                                       *)
C9_PBestFitnessMatchesPosition ==
    /\ [](\A k \in Particles : f_p[k] = Fitness(p[k]))
    /\ [][StepTaken =>
            \A k \in Particles :
                IF RLt(f_x'[k], f_p[k])
                THEN p'[k] = x'[k] /\ f_p'[k] = f_x'[k]
                ELSE p'[k] = p[k] /\ f_p'[k] = f_p[k]]_vars

C9_Witness ==
    /\ i >= 1
    /\ \E k \in Particles : ~mask[k] /\ f_x[k] = f_p[k] /\ x[k] # p[k]

(* C10: the fitness of g is the least fitness any particle has been          *)
(* evaluated at, at construction or in any step so far, and it never         *)
(* increases from one step to the next.                                      *)
C10_GlobalBestIsBestEverSeen ==
    /\ [](Fitness(g) = f_seen)
    /\ [][RLe(Fitness(g'), Fitness(g))]_vars

C10_Witness ==
    /\ i >= 2
    /\ \A k \in Particles : x[k] # g /\ RLt(Fitness(g), f_x[k])
    /\ \E k \in Particles : mask[k]

====
